---- MODULE Spec2Model ----
(***************************************************************************)
(* A model of the twitter_sentiment_analysis pipeline:                     *)
(*   - twitter_client.py : TwitterClient.get_user_by_username,             *)
(*                         TwitterClient.get_user_tweets (pagination),     *)
(*                         _retry_after_from_response                      *)
(*   - app.py            : fetch_and_prepare and the Analyze handler       *)
(*   - utils.py          : clean_text                                      *)
(*   - sentiment.py      : score_to_label, analyze_sentiments              *)
(*   - domain.py         : _normalize_label, _keyword_score,               *)
(*                         classify_domains_keyword                        *)
(* Text is modelled as a sequence of one-character strings.  A Python      *)
(* Optional value is a set with at most one element ({} is None).          *)
(***************************************************************************)
EXTENDS Integers, Sequences, FiniteSets, TLC

(* ------------------------------ bounds -------------------------------- *)
\* direct calls of get_user_tweets use limits -1..MaxLimit and 101..101+MaxLimit
MaxLimit == 3
\* the upstream answers a page with 1..MaxPage items, or with a full page
MaxPage == 2
\* page requests one call may issue before the model stops following it
MaxRequests == 3
\* the clock value int(time()) ranges over 0..MaxNow
MaxNow == 2
\* header values are strings of at most MaxHeaderLen characters
MaxHeaderLen == 2
\* a raw text is made of at most MaxFragments fragments
MaxFragments == 3
\* a frame has at most MaxRows rows
MaxRows == 3
\* compound scores are sampled up to Margin thousandths around each threshold
Margin == 2
\* a candidate-label list has at most MaxLabels labels
MaxLabels == 2
\* a row's text is made of at most MaxWords fragments
MaxWords == 2

(* ------------------------- program constants -------------------------- *)
\* twitter_client.py:72  limit = min(100, remaining)
PAGE_SIZE == 100
\* app.py:28  st.slider("Max tweets to fetch", min_value=5, max_value=15, ...)
SLIDER_MIN == 5
SLIDER_MAX == 15
\* sentiment.py:15, 17  the thresholds 0.05 and -0.05, in thousandths
POSITIVE_THRESHOLD == 50
NEGATIVE_THRESHOLD == -50

(* ------------------------------ helpers ------------------------------- *)
Min(a, b) == IF a <= b THEN a ELSE b
Max(a, b) == IF a >= b THEN a ELSE b

\* Python None for an Optional value, and Some(x)
None == {}
Some(x) == {x}
The(opt) == CHOOSE x \in opt : TRUE

Digits == <<"0", "1", "2", "3", "4", "5", "6", "7", "8", "9">>
Uppers == <<"A", "B", "C", "D", "E", "F", "G", "H", "I", "J", "K", "L", "M",
            "N", "O", "P", "Q", "R", "S", "T", "U", "V", "W", "X", "Y", "Z">>
Lowers == <<"a", "b", "c", "d", "e", "f", "g", "h", "i", "j", "k", "l", "m",
            "n", "o", "p", "q", "r", "s", "t", "u", "v", "w", "x", "y", "z">>

Range(s) == {s[i] : i \in 1..Len(s)}
IndexOf(c, s) == CHOOSE i \in 1..Len(s) : s[i] = c
DigitSet == Range(Digits)
UpperSet == Range(Uppers)
LowerSet == Range(Lowers)
DigitValue == [c \in DigitSet |-> IndexOf(c, Digits) - 1]
ToLower == [c \in UpperSet |-> Lowers[IndexOf(c, Uppers)]]
ToUpper == [c \in LowerSet |-> Uppers[IndexOf(c, Lowers)]]

\* str.isdigit(): non-empty and every character a digit
IsDigitStr(s) == Len(s) > 0 /\ \A i \in 1..Len(s) : s[i] \in DigitSet

\* int(s) of a digit string
RECURSIVE ParseInt(_)
ParseInt(s) ==
    IF Len(s) = 0 THEN 0
    ELSE 10 * ParseInt(SubSeq(s, 1, Len(s) - 1)) + DigitValue[s[Len(s)]]

\* all sequences over S of length at most n
RECURSIVE SeqsUpTo(_, _)
SeqsUpTo(S, n) ==
    IF n = 0 THEN {<<>>}
    ELSE LET shorter == SeqsUpTo(S, n - 1)
         IN  shorter \cup {Append(s, x) : s \in shorter, x \in S}

\* concatenation of a sequence of sequences
RECURSIVE Flatten(_)
Flatten(ss) == IF Len(ss) = 0 THEN <<>> ELSE Head(ss) \o Flatten(Tail(ss))

(***************************************************************************)
(* twitter_client.py : _retry_after_from_response                          *)
(***************************************************************************)
\* The response attached to a TooManyRequests exception:
\*   present      getattr(e, "response", None) is not None
\*   truthy       bool(resp); a requests.Response is falsy when its status is >= 400
\*   has_headers  hasattr(resp, "headers")
\*   headers      None, or a case-insensitive mapping header name -> string
HeaderKeys == {"retry-after", "x-rate-limit-reset"}

\* header names compare case-insensitively (requests' CaseInsensitiveDict)
CanonicalKey(key) ==
    CASE key = "Retry-After" -> "retry-after"
      [] key = "X-Rate-Limit-Reset" -> "x-rate-limit-reset"
      [] OTHER -> key

\* headers.get(key): Some(value), or None when the header is not there
HeaderGet(headers, key) == headers[CanonicalKey(key)]

\* truthiness of an Optional[str]: None and "" are falsy
TruthyStr(opt) == opt # None /\ opt # Some(<<>>)

\* Python's  a or b
PyOr(a, b) == IF TruthyStr(a) THEN a ELSE b

\* resp.headers or {}
EmptyHeaders == [k \in HeaderKeys |-> None]
HeadersOrEmpty(resp_headers) == IF resp_headers = None THEN EmptyHeaders ELSE The(resp_headers)

\* line 99: if not resp or not hasattr(resp, "headers"): return None
NoUsableResponse(resp) == ~resp.present \/ ~resp.truthy \/ ~resp.has_headers

\* lines 95-113; the result is Optional[int]
RetryAfterFromResponse(resp, now) ==
    IF NoUsableResponse(resp) THEN None
    ELSE LET headers == HeadersOrEmpty(resp.headers)
             retry_after == PyOr(HeaderGet(headers, "retry-after"), HeaderGet(headers, "Retry-After"))
             reset_epoch == PyOr(HeaderGet(headers, "x-rate-limit-reset"),
                                 HeaderGet(headers, "X-Rate-Limit-Reset"))
         IN  IF TruthyStr(retry_after) /\ IsDigitStr(The(retry_after))
               THEN Some(ParseInt(The(retry_after)))
             ELSE IF TruthyStr(reset_epoch) /\ IsDigitStr(The(reset_epoch))
               THEN Some(Max(0, ParseInt(The(reset_epoch)) - now))
             ELSE None

NoResponse == [present |-> FALSE, truthy |-> FALSE, has_headers |-> FALSE, headers |-> None]

(***************************************************************************)
(* Exceptions: the class hierarchy the except clauses test                 *)
(***************************************************************************)
\* tweepy: TooManyRequests < HTTPException < TweepyException < Exception;
\* RateLimitError (twitter_client.py:10) and RuntimeError derive from Exception
IsInstance(exc, cls) ==
    \/ exc = cls
    \/ cls = "Exception" /\ exc # "none"
    \/ cls = "TweepyException" /\ exc = "TooManyRequests"

\* what the upstream call may raise
UpstreamErrors == {"TooManyRequests", "TweepyException", "ConnectionError"}

(***************************************************************************)
(* State                                                                   *)
(***************************************************************************)
VARIABLES
    pc,                  \* position of the running call
    caller,              \* "none", "app" (Analyze handler) or "direct"
    client_ok,           \* app.py:41-45: TwitterClient() was constructed
    max_results,         \* get_user_tweets' max_results argument
    remaining,           \* twitter_client.py:69
    collected,           \* twitter_client.py:61
    pagination_token,    \* twitter_client.py:68, Optional[str]
    requests,            \* log: the page requests issued to the upstream
    responses,           \* log: the upstream's answers to them
    result,              \* what get_user_tweets returned
    exc,                 \* the exception propagating out of the call
    retry_after_seconds, \* RateLimitError.retry_after_seconds, Optional[int]
    signal429,           \* the upstream signalled "too many requests"
    ui                   \* which message the Analyze handler showed

fetchVars == <<pc, caller, client_ok, max_results, remaining, collected, pagination_token,
               requests, responses, result, exc, retry_after_seconds, signal429, ui>>

\* one call of _retry_after_from_response(e)
VARIABLES
    e_response,          \* getattr(e, "response", None)
    clock,               \* int(time())
    hint,                \* the value returned, Optional[int]
    retry_pc             \* "call" before the call, "done" after it

retryVars == <<e_response, clock, hint, retry_pc>>

\* clean_text applied to a text, and again to its own result
VARIABLES
    text,                \* the raw text
    text_clean,          \* clean_text(text)
    text_clean2,         \* clean_text(text_clean)
    clean_pc             \* "raw", "clean" or "reclean"

cleanVars == <<text, text_clean, text_clean2, clean_pc>>

\* analyze_sentiments on a frame of rows
VARIABLES
    df_rows,             \* number of rows of the frame
    df_compound,         \* the "compound" column
    df_sentiment_label,  \* the "sentiment_label" column
    sentiment_pc         \* "call" before the call, "done" after it

sentimentVars == <<df_rows, df_compound, df_sentiment_label, sentiment_pc>>

\* classify_domains_keyword on a one-row frame
VARIABLES
    KEYWORD_LEXICON,       \* domain.py:31, 106: label -> keywords, in insertion order
    DEFAULT_DOMAIN_LABELS, \* domain.py:16, 107
    candidate_labels,      \* the candidate_labels argument, Optional[List[str]]
    row_text_clean,        \* the row's text_clean
    domain_label,          \* the row's domain_label
    domain_confidence,     \* the row's domain_confidence
    domain_pc              \* "call" before the call, "done" after it

domainVars == <<KEYWORD_LEXICON, DEFAULT_DOMAIN_LABELS, candidate_labels, row_text_clean,
                domain_label, domain_confidence, domain_pc>>

vars == <<fetchVars, retryVars, cleanVars, sentimentVars, domainVars>>

\* what the actions of one component leave alone
notFetch == <<retryVars, cleanVars, sentimentVars, domainVars>>
notRetry == <<fetchVars, cleanVars, sentimentVars, domainVars>>
notClean == <<fetchVars, retryVars, sentimentVars, domainVars>>
notSentiment == <<fetchVars, retryVars, cleanVars, domainVars>>
notDomain == <<fetchVars, retryVars, cleanVars, sentimentVars>>

(***************************************************************************)
(* The upstream (tweepy.Client) as get_user_tweets sees it                 *)
(***************************************************************************)
\* a page holds 1..MaxPage items or a full page; never more than PAGE_SIZE
PageCounts == (1..MaxPage) \cup {PAGE_SIZE}

\* limits of a direct call: around zero, and just above one full page
Limits == (-1..MaxLimit) \cup {PAGE_SIZE + 1 + k : k \in 0..MaxLimit}

\* opaque continuation tokens; "" is a token a server may send, and is falsy
Tokens == {"", "t1"}

\* items are numbered in the order the upstream delivers them
Delivered(resps) == Len(Flatten([i \in 1..Len(resps) |-> resps[i].data]))
NewItems(resps, n) == [i \in 1..n |-> Delivered(resps) + i]

\* resp.data is None, [] or a list of n items; resp.meta is None/{} or a dict
\* that may hold "next_token"
Answers(resps) ==
    {[data_none |-> dn, data |-> NewItems(resps, n), meta_falsy |-> mf, next_token |-> tok] :
        dn \in BOOLEAN, n \in {0} \cup PageCounts, mf \in BOOLEAN,
        tok \in {None} \cup {Some(t) : t \in Tokens}}

Answer(resps) ==
    {a \in Answers(resps) : (a.data_none => a.data = <<>>) /\ (a.meta_falsy => a.next_token = None)}

\* the responses attached to a TooManyRequests raised by get_user
Header(ra, re) == [k \in HeaderKeys |-> IF k = "retry-after" THEN ra ELSE re]
RateLimitResponses ==
    { NoResponse,
      [present |-> TRUE, truthy |-> TRUE, has_headers |-> TRUE,
       headers |-> Some(Header(Some(<<"1">>), None))],
      [present |-> TRUE, truthy |-> FALSE, has_headers |-> TRUE,
       headers |-> Some(Header(Some(<<"1">>), Some(<<"2">>)))] }

(***************************************************************************)
(* twitter_client.py : TwitterClient.get_user_tweets                       *)
(***************************************************************************)
\* line 69: remaining = max(1, max_results)
InitialRemaining(m) == Max(1, m)

\* line 72: limit = min(100, remaining)
PageLimitUncapped(rem) == rem
PageLimit(rem) == Min(PAGE_SIZE, rem)

\* line 88: pagination_token = resp.meta.get("next_token") if resp.meta else None
NextToken(resp) == IF resp.meta_falsy THEN None ELSE resp.next_token

\* line 89: if not pagination_token  (None and "" are falsy)
NoTokenNever(tok) == FALSE
NoToken(tok) == tok = None \/ tok = Some("")

\* lines 61-69: the state of a call before its loop
EnterGetUserTweets(m) ==
    /\ max_results' = m
    /\ collected' = <<>>
    /\ pagination_token' = None
    /\ remaining' = InitialRemaining(m)
    /\ requests' = <<>>
    /\ responses' = <<>>
    /\ pc' = "loop"

\* a direct call get_user_tweets(user_id, max_results=m)
CallGetUserTweets ==
    /\ pc = "idle"
    /\ \E m \in Limits : EnterGetUserTweets(m)
    /\ caller' = "direct"
    /\ UNCHANGED <<notFetch, client_ok, result, exc, retry_after_seconds, signal429, ui>>

\* lines 71-81: the loop test passes and the page request goes out
RequestPage ==
    /\ pc = "loop"
    /\ remaining > 0
    /\ Len(requests) < MaxRequests
    /\ requests' = Append(requests, [max_results |-> PageLimit(remaining),
                                     pagination_token |-> pagination_token])
    /\ pc' = "await"
    /\ UNCHANGED <<notFetch, caller, client_ok, max_results, remaining, collected, pagination_token,
                   responses, result, exc, retry_after_seconds, signal429, ui>>

\* line 71 fails, line 92: return collected
LoopExit ==
    /\ pc = "loop"
    /\ remaining <= 0
    /\ result' = collected
    /\ pc' = "returned"
    /\ UNCHANGED <<notFetch, caller, client_ok, max_results, remaining, collected, pagination_token,
                   requests, responses, exc, retry_after_seconds, signal429, ui>>

\* lines 83-92: the upstream answers resp
ReceivePage ==
    /\ pc = "await"
    /\ \E resp \in Answer(responses) :
        /\ responses' = Append(responses, resp)
        /\ IF resp.data_none
             THEN \* line 83-84: break, line 92
                  /\ result' = collected
                  /\ pc' = "returned"
                  /\ UNCHANGED <<collected, remaining, pagination_token>>
             ELSE /\ collected' = collected \o resp.data
                  /\ remaining' = remaining - Len(resp.data)
                  /\ pagination_token' = NextToken(resp)
                  /\ IF NoToken(NextToken(resp))
                       THEN \* line 89-90: break, line 92
                            /\ result' = collected \o resp.data
                            /\ pc' = "returned"
                       ELSE /\ pc' = "loop"
                            /\ UNCHANGED result
    /\ UNCHANGED <<notFetch, caller, client_ok, max_results, requests, exc, retry_after_seconds,
                   signal429, ui>>

\* lines 73-81 raise: get_user_tweets has no except clause, the exception leaves as it is
PageRaises ==
    /\ pc = "await"
    /\ \E e \in UpstreamErrors :
        /\ exc' = e
        /\ signal429' = (signal429 \/ e = "TooManyRequests")
    /\ pc' = "raised"
    /\ UNCHANGED <<notFetch, caller, client_ok, max_results, remaining, collected, pagination_token,
                   requests, responses, result, retry_after_seconds, ui>>

(***************************************************************************)
(* app.py : the Analyze handler and fetch_and_prepare                      *)
(***************************************************************************)
\* lines 141-144: the username is blank
AnalyzeBlankUsername ==
    /\ pc = "idle"
    /\ caller' = "app"
    /\ ui' = "enter_username"
    /\ pc' = "done"
    /\ UNCHANGED <<notFetch, client_ok, max_results, remaining, collected, pagination_token, requests,
                   responses, result, exc, retry_after_seconds, signal429>>

\* lines 146-155, 49-52: fetch_and_prepare starts; max_results comes from the slider
AnalyzeClick ==
    /\ pc = "idle"
    /\ caller' = "app"
    /\ \E m \in SLIDER_MIN..SLIDER_MAX : max_results' = m
    /\ IF client_ok
         THEN pc' = "get_user" /\ UNCHANGED exc
         ELSE \* line 50: raise RuntimeError("API client not available")
              pc' = "raised" /\ exc' = "RuntimeError"
    /\ UNCHANGED <<notFetch, client_ok, remaining, collected, pagination_token, requests, responses,
                   result, retry_after_seconds, signal429, ui>>

\* twitter_client.py:40-41 and app.py:52-65: the user is resolved, the fetch starts
GetUserFound ==
    /\ pc = "get_user"
    /\ EnterGetUserTweets(max_results)
    /\ UNCHANGED <<notFetch, caller, client_ok, result, exc, retry_after_seconds, signal429, ui>>

\* twitter_client.py:41 returns None; app.py:53-54, 166-168
GetUserNotFound ==
    /\ pc = "get_user"
    /\ ui' = "no_tweets"
    /\ pc' = "done"
    /\ UNCHANGED <<notFetch, caller, client_ok, max_results, remaining, collected, pagination_token,
                   requests, responses, result, exc, retry_after_seconds, signal429>>

\* twitter_client.py:42-46: get_user raises
GetUserRaises ==
    /\ pc = "get_user"
    /\ \E e \in UpstreamErrors :
        /\ signal429' = (signal429 \/ e = "TooManyRequests")
        /\ IF IsInstance(e, "TooManyRequests")
             THEN /\ exc' = "RateLimitError"
                  /\ \E resp \in RateLimitResponses, now \in 0..MaxNow :
                        retry_after_seconds' = RetryAfterFromResponse(resp, now)
             ELSE IF IsInstance(e, "TweepyException")
             THEN exc' = "RuntimeError" /\ UNCHANGED retry_after_seconds
             ELSE exc' = e /\ UNCHANGED retry_after_seconds
    /\ pc' = "raised"
    /\ UNCHANGED <<notFetch, caller, client_ok, max_results, remaining, collected, pagination_token,
                   requests, responses, result, ui>>

\* app.py:156-164: which except clause takes the exception
HandlerBranch(e) ==
    IF IsInstance(e, "RateLimitError") THEN "rate_limit_warning"
    ELSE IF IsInstance(e, "Exception") THEN "generic_error"
    ELSE "uncaught"

HandlerCatches ==
    /\ pc = "raised"
    /\ caller = "app"
    /\ ui' = HandlerBranch(exc)
    /\ pc' = "done"
    /\ UNCHANGED <<notFetch, caller, client_ok, max_results, remaining, collected, pagination_token,
                   requests, responses, result, exc, retry_after_seconds, signal429>>

\* app.py:67-88, 166-183: the tweets become rows; an empty frame, or a keyword
\* filter that matches no row, stops with an info message
ShowResults ==
    /\ pc = "returned"
    /\ caller = "app"
    /\ IF result = <<>>
         THEN ui' = "no_tweets"
         ELSE ui' \in {"rendered", "no_keyword_match"}
    /\ pc' = "done"
    /\ UNCHANGED <<notFetch, caller, client_ok, max_results, remaining, collected, pagination_token,
                   requests, responses, result, exc, retry_after_seconds, signal429>>

NextFetch ==
    \/ CallGetUserTweets
    \/ RequestPage
    \/ LoopExit
    \/ ReceivePage
    \/ PageRaises
    \/ AnalyzeBlankUsername
    \/ AnalyzeClick
    \/ GetUserFound
    \/ GetUserNotFound
    \/ GetUserRaises
    \/ HandlerCatches
    \/ ShowResults

(***************************************************************************)
(* Properties of the fetch loop and of the Analyze handler (SpecFetch)     *)
(***************************************************************************)
\* the call has ended by returning
Returned == pc = "returned" \/ (pc = "done" /\ caller = "app" /\ exc = "none" /\ requests # <<>>)

\* items of the first k answers, in the order the upstream delivered them
DeliveredBefore(k) == Delivered(SubSeq(responses, 1, k - 1))

\* the continuation token an answer carries, read off the answer itself
TokenOf(r) == IF r.meta_falsy THEN None ELSE r.next_token

\* C1: whenever get_user_tweets has returned, the returned list holds at most
\* max_results items.  Stated for the limits of at least 1, where the clamp of
\* line 69 does not act: the pages of line 86 alone exceed the limit.
C1_AtMostRequested == (pc = "returned" /\ max_results >= 1) => Len(result) <= max_results

\* C2: whenever the upstream signalled "too many requests", in get_user or in a
\* page request, the call fails with RateLimitError and the Analyze handler
\* shows its rate-limit warning, never the generic error.
C2_RateLimitIsDistinct ==
    signal429 =>
        /\ pc = "raised" => exc = "RateLimitError"
        /\ pc = "done" => ui = "rate_limit_warning"

\* C3: an answer with a non-empty page and no continuation token is the last
\* one: no request follows it and the call returns everything delivered so
\* far, in delivery order, even when remaining > 0.
C3_StopsAtEndOfData ==
    \A k \in 1..Len(responses) :
        (~responses[k].data_none /\ responses[k].data # <<>> /\ TokenOf(responses[k]) = None)
            => /\ k = Len(responses)
               /\ Len(requests) = k
               /\ Returned
               /\ result = Flatten([i \in 1..k |-> responses[i].data])
               /\ result = [i \in 1..Len(result) |-> i]

C3_Witness ==
    /\ pc = "returned"
    /\ Len(responses) = 2
    /\ responses[2].data # <<>>
    /\ ~responses[2].meta_falsy
    /\ responses[2].next_token = None
    /\ remaining > 0
    /\ Len(result) = 3

\* C8: an answer without items (data None or an empty list), with or without
\* a continuation token, is the last one: no request follows it and the call
\* returns.
C8_StopsOnItemlessPage ==
    \A k \in 1..Len(responses) :
        responses[k].data = <<>>
            => /\ k = Len(responses)
               /\ Len(requests) = k
               /\ Returned

HeaderChars == {"0", "1", "2", "-", "x"}
HeaderValues == {None} \cup {Some(v) : v \in SeqsUpTo(HeaderChars, MaxHeaderLen)}

\* the responses an exception can carry
ExceptionResponses ==
    {NoResponse}
    \cup {[present |-> TRUE, truthy |-> t, has_headers |-> FALSE, headers |-> None] : t \in BOOLEAN}
    \cup {[present |-> TRUE, truthy |-> t, has_headers |-> TRUE, headers |-> None] : t \in BOOLEAN}
    \cup {[present |-> TRUE, truthy |-> t, has_headers |-> TRUE, headers |-> Some(Header(ra, re))] :
            t \in BOOLEAN, ra \in HeaderValues, re \in HeaderValues}

\* twitter_client.py:43: retry_after = _retry_after_from_response(e)
ExtractRetryAfter ==
    /\ retry_pc = "call"
    /\ hint' = RetryAfterFromResponse(e_response, clock)
    /\ retry_pc' = "done"
    /\ UNCHANGED <<notRetry, e_response, clock>>

NextRetry == ExtractRetryAfter

\* what the response's headers hold, read off the response itself
HeaderOf(resp, key) ==
    IF resp.present /\ resp.has_headers /\ resp.headers # None THEN The(resp.headers)[key] ELSE None
IsNumeric(opt) == opt # None /\ IsDigitStr(The(opt))

\* the hint by priority: retry-after, else the reset delta floored at 0, else none
PriorityHint(resp, now) ==
    IF IsNumeric(HeaderOf(resp, "retry-after"))
      THEN Some(ParseInt(The(HeaderOf(resp, "retry-after"))))
    ELSE IF IsNumeric(HeaderOf(resp, "x-rate-limit-reset"))
      THEN Some(Max(0, ParseInt(The(HeaderOf(resp, "x-rate-limit-reset"))) - now))
    ELSE None

\* C6: the hint is the numeric retry-after value if the response has one, else
\* max(0, reset_epoch - now) if it has a numeric reset epoch, else absent; it
\* is never negative.
C6_HintPriority ==
    retry_pc = "done" =>
        /\ hint = PriorityHint(e_response, clock)
        /\ \A h \in hint : h >= 0

(***************************************************************************)
(* utils.py : clean_text                                                   *)
(***************************************************************************)
\* \s and \w of Python's re, on the characters the model uses
Whitespace == {" ", "\t", "\n"}
IsSpace(c) == c \in Whitespace
IsNonSpace(c) == c \notin Whitespace
IsWordChar(c) == c \in LowerSet \/ c \in UpperSet \/ c \in DigitSet \/ c = "_"

StartsWithAt(s, i, pat) == i + Len(pat) - 1 <= Len(s) /\ SubSeq(s, i, i + Len(pat) - 1) = pat

\* membership of a character in a class of the patterns: \s, \S or \w
InClass(class, c) ==
    CASE class = "s" -> IsSpace(c)
      [] class = "S" -> IsNonSpace(c)
      [] class = "w" -> IsWordChar(c)

\* end of the longest run of characters of a class that starts at i (i - 1: no run)
RunEnd(s, i, class) ==
    (CHOOSE j \in i..(Len(s) + 1) :
        /\ j = Len(s) + 1 \/ ~InClass(class, s[j])
        /\ \A k \in i..(j - 1) : InClass(class, s[k])) - 1

HttpScheme == <<"h", "t", "t", "p", ":", "/", "/">>
HttpsScheme == <<"h", "t", "t", "p", "s", ":", "/", "/">>
AmpEntity == <<"&", "a", "m", "p", ";">>
LtEntity == <<"&", "l", "t", ";">>
GtEntity == <<"&", "g", "t", ";">>

\* index of the last character of the match of a pattern at position i, 0 if
\* the pattern does not match there
\*   URL_RE = https?://\S+    MENTION_RE = @\w+    HASHTAG_RE = #
\*   MULTISPACE_RE = \s+      and the literals &amp; &lt; &gt;
MatchEnd(pattern, s, i) ==
    CASE pattern = "URL_RE" ->
            LET scheme == IF StartsWithAt(s, i, HttpsScheme) THEN Len(HttpsScheme)
                          ELSE IF StartsWithAt(s, i, HttpScheme) THEN Len(HttpScheme) ELSE 0
                e == RunEnd(s, i + scheme, "S")
            IN  IF scheme > 0 /\ e >= i + scheme THEN e ELSE 0
      [] pattern = "MENTION_RE" ->
            LET e == RunEnd(s, i + 1, "w")
            IN  IF s[i] = "@" /\ e >= i + 1 THEN e ELSE 0
      [] pattern = "HASHTAG_RE" -> IF s[i] = "#" THEN i ELSE 0
      [] pattern = "&amp;" -> IF StartsWithAt(s, i, AmpEntity) THEN i + Len(AmpEntity) - 1 ELSE 0
      [] pattern = "&lt;" -> IF StartsWithAt(s, i, LtEntity) THEN i + Len(LtEntity) - 1 ELSE 0
      [] pattern = "&gt;" -> IF StartsWithAt(s, i, GtEntity) THEN i + Len(GtEntity) - 1 ELSE 0
      [] pattern = "MULTISPACE_RE" ->
            LET e == RunEnd(s, i, "s") IN IF e >= i THEN e ELSE 0

\* re.sub(pattern, repl, s): the matches, leftmost first and not overlapping,
\* are replaced by repl
RECURSIVE ReSubFrom(_, _, _, _)
ReSubFrom(pattern, repl, s, i) ==
    IF i > Len(s) THEN <<>>
    ELSE LET e == MatchEnd(pattern, s, i)
         IN  IF e >= i THEN repl \o ReSubFrom(pattern, repl, s, e + 1)
             ELSE <<s[i]>> \o ReSubFrom(pattern, repl, s, i + 1)

ReSub(pattern, repl, s) == ReSubFrom(pattern, repl, s, 1)

\* str.strip()
Strip(s) ==
    LET keep == {i \in 1..Len(s) : IsNonSpace(s[i])}
    IN  IF keep = {} THEN <<>>
        ELSE SubSeq(s, CHOOSE i \in keep : \A k \in keep : i <= k,
                       CHOOSE i \in keep : \A k \in keep : i >= k)

\* str.lower()
LowerChar(c) == IF c \in UpperSet THEN ToLower[c] ELSE c
Lower(s) == [i \in 1..Len(s) |-> LowerChar(s[i])]

\* utils.py:12-21
clean_text(t) ==
    LET NoUrls(t0) == ReSub("URL_RE", <<" ">>, t0)
        NoMentions(t1) == ReSub("MENTION_RE", <<" ">>, t1)
        NoHashes(t2) == ReSub("HASHTAG_RE", <<>>, t2)
        Amp(t3) == ReSub("&amp;", <<"&">>, t3)
        Lt(t4) == ReSub("&lt;", <<"<">>, t4)
        Gt(t5) == ReSub("&gt;", <<">">>, t5)
        OneSpace(t6) == ReSub("MULTISPACE_RE", <<" ">>, t6)
    IN  Lower(Strip(OneSpace(Gt(Lt(Amp(NoHashes(NoMentions(NoUrls(t)))))))))

\* the pieces raw texts are made of
Fragments ==
    { <<"a">>, <<"B">>, <<" ">>, <<"\t">>, <<"@">>, <<"#">>, <<"&">>,
      <<"a", "m", "p", ";">>, <<"l", "t", ";">>,
      <<"h", "t", "t", "p">>, <<"s">>, <<":", "/", "/">> }

RawTexts == {Flatten(fs) : fs \in SeqsUpTo(Fragments, MaxFragments)}

\* app.py:87: df["text_clean"] = df["text"].astype(str).apply(clean_text)
CleanText ==
    /\ clean_pc = "raw"
    /\ text_clean' = clean_text(text)
    /\ clean_pc' = "clean"
    /\ UNCHANGED <<notClean, text, text_clean2>>

\* clean_text applied to a text that is already clean
CleanAgain ==
    /\ clean_pc = "clean"
    /\ text_clean2' = clean_text(text_clean)
    /\ clean_pc' = "reclean"
    /\ UNCHANGED <<notClean, text, text_clean>>

NextClean ==
    \/ CleanText
    \/ CleanAgain

\* C4: clean_text is idempotent: cleaning a cleaned text changes nothing.
C4_Idempotent == clean_pc = "reclean" => text_clean2 = text_clean

(***************************************************************************)
(* sentiment.py : score_to_label, analyze_sentiments                       *)
(***************************************************************************)
\* A compound score is an integer number of thousandths: 0.05 is 50, 0.049 is
\* 49, and the scorer's range [-1, 1] is -1000..1000.

\* sentiment.py:14-19
score_to_label_open(compound) ==
    IF compound > POSITIVE_THRESHOLD THEN "Positive"
    ELSE IF compound < NEGATIVE_THRESHOLD THEN "Negative"
    ELSE "Neutral"
score_to_label(compound) ==
    IF compound >= POSITIVE_THRESHOLD THEN "Positive"
    ELSE IF compound <= NEGATIVE_THRESHOLD THEN "Negative"
    ELSE "Neutral"

\* the scores the polarity scorer may give a row: the ends and the middle of
\* its range, and every value within Margin of a threshold
CompoundSamples ==
    {-1000, 0, 1000}
    \cup ((NEGATIVE_THRESHOLD - Margin)..(NEGATIVE_THRESHOLD + Margin))
    \cup ((POSITIVE_THRESHOLD - Margin)..(POSITIVE_THRESHOLD + Margin))

\* sentiment.py:22-30: the scorer fills "compound", score_to_label is applied
\* to every row of it
AnalyzeSentiments ==
    /\ sentiment_pc = "call"
    /\ \E compound \in [1..df_rows -> CompoundSamples] :
        /\ df_compound' = compound
        /\ df_sentiment_label' = [i \in 1..df_rows |-> score_to_label(compound[i])]
    /\ sentiment_pc' = "done"
    /\ UNCHANGED <<notSentiment, df_rows>>

NextSentiment == AnalyzeSentiments

\* C7: every row's sentiment_label is exactly one of the three labels, fixed
\* by the row's compound with both thresholds closed: Positive from 0.05 up,
\* Negative from -0.05 down, Neutral strictly between.
C7_ClosedThresholds ==
    sentiment_pc = "done" =>
        /\ Len(df_sentiment_label) = df_rows
        /\ \A i \in 1..df_rows :
            /\ df_sentiment_label[i] \in {"Positive", "Neutral", "Negative"}
            /\ df_compound[i] >= 50 <=> df_sentiment_label[i] = "Positive"
            /\ df_compound[i] <= -50 <=> df_sentiment_label[i] = "Negative"
            /\ (df_compound[i] > -50 /\ df_compound[i] < 50) <=> df_sentiment_label[i] = "Neutral"

C7_Witness ==
    /\ sentiment_pc = "done"
    /\ df_compound = <<50, -50, 49>>
    /\ df_sentiment_label = <<"Positive", "Negative", "Neutral">>

(***************************************************************************)
(* domain.py : the keyword lexicon and classify_domains_keyword            *)
(***************************************************************************)
\* A Python dict is a sequence of <<key, value>> pairs with distinct keys, in
\* insertion order.
DictKeys(d) == [i \in 1..Len(d) |-> d[i][1]]
DictHas(d, k) == \E i \in 1..Len(d) : d[i][1] = k
DictGet(d, k, default) ==
    IF DictHas(d, k) THEN d[CHOOSE i \in 1..Len(d) : d[i][1] = k][2] ELSE default
\* d[k] = v: a key that is there keeps its place
DictSet(d, k, v) ==
    IF DictHas(d, k) THEN [i \in 1..Len(d) |-> IF d[i][1] = k THEN <<k, v>> ELSE d[i]]
    ELSE Append(d, <<k, v>>)

\* str.title(): a letter that starts a run of letters is upper-cased, every
\* other letter lower-cased
IsLetter(c) == c \in LowerSet \/ c \in UpperSet
UpperChar(c) == IF c \in LowerSet THEN ToUpper[c] ELSE c
Title(s) ==
    [i \in 1..Len(s) |->
        IF ~IsLetter(s[i]) THEN s[i]
        ELSE IF i = 1 \/ ~IsLetter(s[i - 1]) THEN UpperChar(s[i]) ELSE LowerChar(s[i])]

\* domain.py:11-12
normalize_label(label) ==
    LET Collapse(stripped) == ReSub("MULTISPACE_RE", <<" ">>, stripped)
    IN  Title(Collapse(Strip(label)))

Other == <<"O", "t", "h", "e", "r">>

\* domain.py:16-27 and 31-71, an excerpt: three of the ten built-in domains,
\* in their order, with their keywords of at most three letters
BUILTIN_DOMAIN_LABELS == <<<<"S", "p", "o", "r", "t", "s">>, <<"T", "e", "c", "h", "n", "o", "l", "o", "g", "y">>, <<"E", "n", "t", "e", "r", "t", "a", "i", "n", "m", "e", "n", "t">>>>
BUILTIN_KEYWORD_LEXICON ==
    << <<<<"S", "p", "o", "r", "t", "s">>, <<<<"n", "b", "a">>>> >>,
       <<<<"T", "e", "c", "h", "n", "o", "l", "o", "g", "y">>, <<<<"a", "i">>, <<"a", "p", "p">>, <<"a", "p", "i">>, <<"m", "l">>>> >>,
       <<<<"E", "n", "t", "e", "r", "t", "a", "i", "n", "m", "e", "n", "t">>, <<<<"t", "v">>>> >> >>

\* domain.py:87-97: the loop over the items of the JSON object; an item is
\* [label, keywords] with keywords None when the JSON value is not a list
RECURSIVE LoadItems(_, _)
LoadItems(items, lex) ==
    IF Len(items) = 0 THEN lex
    ELSE LET label == normalize_label(Head(items).label)
             keywords == Head(items).keywords
             cleaned == IF keywords = None THEN <<>>
                        ELSE [i \in 1..Len(The(keywords)) |-> Lower(Strip(The(keywords)[i]))]
             kw == SelectSeq(cleaned, LAMBDA k : k # <<>>)
         IN  LoadItems(Tail(items), IF kw # <<>> THEN DictSet(lex, label, kw) ELSE lex)

\* domain.py:74-100; data is None when the file is missing, unreadable or not
\* a JSON object; the result is None or a non-empty dict
load_external_lexicon(data) ==
    IF data = None THEN None
    ELSE LET lex == LoadItems(The(data), <<>>)
         IN  IF lex = <<>> THEN None ELSE Some(lex)

\* the contents domain_classification.json may have
Item(label, keywords) == [label |-> label, keywords |-> keywords]
ExternalFiles ==
    { None,
      Some(<< Item(<<"x">>, Some(<<>>)), Item(<<"t", "e", "c", "h">>, None) >>),
      Some(<< Item(<<"o", "t", "h", "e", "r">>, Some(<<<<"t", "v">>>>)), Item(<<"t", "e", "c", "h">>, Some(<<<<"a", "i">>, <<"T", "V", " ">>>>)) >>),
      Some(<< Item(<<"t", "e", "c", "h">>, Some(<<<<"a", "i">>>>)), Item(<<"x">>, Some(<<<<"t", "v">>, <<"m", "l">>>>)),
              Item(<<" ", "T", "E", "C", "H">>, Some(<<<<"t", "v">>, << >>, <<"t", "v">>>>)) >>) }

\* domain.py:103-107: an external lexicon replaces the built-in one and its labels
ImportedLexicon(file) ==
    LET external == load_external_lexicon(file)
    IN  IF external # None THEN The(external) ELSE BUILTIN_KEYWORD_LEXICON
ImportedLabels(file) ==
    LET external == load_external_lexicon(file)
    IN  IF external # None THEN DictKeys(The(external)) ELSE BUILTIN_DOMAIN_LABELS

\* domain.py:110-113
IsSubstring(kw, t) == \E i \in 1..(Len(t) - Len(kw) + 1) : StartsWithAt(t, i, kw)
keyword_score(t, keywords) ==
    LET Count(text_lc) == Cardinality({i \in 1..Len(keywords) : IsSubstring(keywords[i], text_lc)})
    IN  Count(Lower(t))

\* domain.py:120-123
Labels(candidates, defaults) ==
    LET chosen == IF candidates # None /\ The(candidates) # <<>> THEN The(candidates) ELSE defaults
    IN  [i \in 1..Len(chosen) |-> normalize_label(chosen[i])]

\* domain.py:127: the dict comprehension; a repeated label keeps its first place
RECURSIVE ScoresFrom(_, _, _, _)
ScoresFrom(labels, lexicon, t, scores) ==
    IF Len(labels) = 0 THEN scores
    ELSE ScoresFrom(Tail(labels), lexicon, t,
                    DictSet(scores, Head(labels),
                            keyword_score(t, DictGet(lexicon, Head(labels), <<>>))))

\* domain.py:128: max(scores.items(), key=lambda kv: kv[1]) is the first item
\* whose value no item exceeds
MaxItemLast(scores) ==
    scores[CHOOSE i \in 1..Len(scores) :
        /\ \A j \in 1..Len(scores) : scores[j][2] <= scores[i][2]
        /\ \A j \in (i + 1)..Len(scores) : scores[j][2] < scores[i][2]]
MaxItem(scores) ==
    scores[CHOOSE i \in 1..Len(scores) :
        /\ \A j \in 1..Len(scores) : scores[j][2] <= scores[i][2]
        /\ \A j \in 1..(i - 1) : scores[j][2] < scores[i][2]]

\* domain.py:120-131: pick_label for one row; the confidence float(best_score)
\* is kept as the integer it was
pick_label(t, candidates, lexicon, defaults) ==
    LET Scores(labels) == ScoresFrom(labels, lexicon, t, <<>>)
        Pick(best) == IF best[2] = 0 THEN <<Other, 0>> ELSE best
    IN  Pick(MaxItem(Scores(Labels(candidates, defaults))))

\* the texts and candidate labels the rows and callers use
TextFragments == {<<"a", "i">>, <<"t", "v">>, <<"M", "l">>, <<" ">>}
RowTexts == {Flatten(fs) : fs \in SeqsUpTo(TextFragments, MaxWords)}
RawLabels ==
    { <<"t", "e", "c", "h", "n", "o", "l", "o", "g", "y">>,
      <<"E", "n", "t", "e", "r", "t", "a", "i", "n", "m", "e", "n", "t", " ", " ">>,
      <<" ", "T", "E", "C", "H">>,
      <<"o", "t", "h", "e", "r">> }
CandidateLists == {None} \cup {Some(ls) : ls \in SeqsUpTo(RawLabels, MaxLabels)}

\* domain.py:133-137 on a frame of one row
ClassifyDomainsKeyword ==
    /\ domain_pc = "call"
    /\ LET assignment == pick_label(row_text_clean, candidate_labels, KEYWORD_LEXICON,
                                    DEFAULT_DOMAIN_LABELS)
       IN  /\ domain_label' = assignment[1]
           /\ domain_confidence' = assignment[2]
    /\ domain_pc' = "done"
    /\ UNCHANGED <<notDomain, KEYWORD_LEXICON, DEFAULT_DOMAIN_LABELS, candidate_labels,
                   row_text_clean>>

NextDomain == ClassifyDomainsKeyword

\* the row's score for a label, and the labels in candidate order
RowScore(label) == keyword_score(row_text_clean, DictGet(KEYWORD_LEXICON, label, <<>>))
RowLabels == Labels(candidate_labels, DEFAULT_DOMAIN_LABELS)
BestRowScore == CHOOSE m \in {RowScore(l) : l \in Range(RowLabels)} :
                    \A l \in Range(RowLabels) : RowScore(l) <= m

\* C5: under the keyword method, with any lexicon, the row's confidence is 0
\* exactly when its label is "Other"; a text holding no keyword of any
\* candidate label gets ("Other", 0).
C5_ZeroIffOther ==
    domain_pc = "done" =>
        /\ domain_confidence = 0 <=> domain_label = Other
        /\ (\A l \in Range(RowLabels) : RowScore(l) = 0)
            => (domain_label = Other /\ domain_confidence = 0)

\* C10: when the best keyword score is positive, the label chosen is the first
\* label in candidate order (after normalization) whose score is the best one,
\* and the confidence is that score.
C10_StableArgmax ==
    (domain_pc = "done" /\ BestRowScore > 0) =>
        /\ domain_confidence = BestRowScore
        /\ \E i \in 1..Len(RowLabels) :
            /\ RowLabels[i] = domain_label
            /\ RowScore(RowLabels[i]) = BestRowScore
            /\ \A j \in 1..(i - 1) : RowScore(RowLabels[j]) < BestRowScore

\* a tie between two labels, the first of which comes later in the alphabet
C10_Witness ==
    /\ domain_pc = "done"
    /\ KEYWORD_LEXICON = BUILTIN_KEYWORD_LEXICON
    /\ candidate_labels = Some(<< <<"t", "e", "c", "h", "n", "o", "l", "o", "g", "y">>,
                                 <<"E", "n", "t", "e", "r", "t", "a", "i", "n", "m", "e", "n", "t", " ", " ">> >>)
    /\ row_text_clean = <<"a", "i", "t", "v">>
    /\ RowScore(RowLabels[1]) = 1
    /\ RowScore(RowLabels[2]) = 1
    /\ domain_label = <<"T", "e", "c", "h", "n", "o", "l", "o", "g", "y">>
    /\ domain_confidence = 1

(***************************************************************************)
(* Specifications: each runs one component from its initial states while   *)
(* the variables of the other components keep their initial values         *)
(***************************************************************************)
\* the Analyze handler and get_user_tweets
InitFetch ==
    /\ pc = "idle"
    /\ caller = "none"
    /\ client_ok \in BOOLEAN
    /\ max_results = 0
    /\ remaining = 0
    /\ collected = <<>>
    /\ pagination_token = None
    /\ requests = <<>>
    /\ responses = <<>>
    /\ result = <<>>
    /\ exc = "none"
    /\ retry_after_seconds = None
    /\ signal429 = FALSE
    /\ ui = "none"
    /\ e_response = NoResponse
    /\ clock = 0
    /\ hint = None
    /\ retry_pc = "call"
    /\ text = <<>>
    /\ text_clean = <<>>
    /\ text_clean2 = <<>>
    /\ clean_pc = "raw"
    /\ df_rows = 0
    /\ df_compound = <<>>
    /\ df_sentiment_label = <<>>
    /\ sentiment_pc = "call"
    /\ KEYWORD_LEXICON = BUILTIN_KEYWORD_LEXICON
    /\ DEFAULT_DOMAIN_LABELS = BUILTIN_DOMAIN_LABELS
    /\ candidate_labels = None
    /\ row_text_clean = <<>>
    /\ domain_label = <<>>
    /\ domain_confidence = 0
    /\ domain_pc = "call"

SpecFetch == InitFetch /\ [][NextFetch]_vars

\* _retry_after_from_response
InitRetry ==
    /\ pc = "idle"
    /\ caller = "none"
    /\ client_ok = TRUE
    /\ max_results = 0
    /\ remaining = 0
    /\ collected = <<>>
    /\ pagination_token = None
    /\ requests = <<>>
    /\ responses = <<>>
    /\ result = <<>>
    /\ exc = "none"
    /\ retry_after_seconds = None
    /\ signal429 = FALSE
    /\ ui = "none"
    /\ e_response \in ExceptionResponses
    /\ clock \in 0..MaxNow
    /\ hint = None
    /\ retry_pc = "call"
    /\ text = <<>>
    /\ text_clean = <<>>
    /\ text_clean2 = <<>>
    /\ clean_pc = "raw"
    /\ df_rows = 0
    /\ df_compound = <<>>
    /\ df_sentiment_label = <<>>
    /\ sentiment_pc = "call"
    /\ KEYWORD_LEXICON = BUILTIN_KEYWORD_LEXICON
    /\ DEFAULT_DOMAIN_LABELS = BUILTIN_DOMAIN_LABELS
    /\ candidate_labels = None
    /\ row_text_clean = <<>>
    /\ domain_label = <<>>
    /\ domain_confidence = 0
    /\ domain_pc = "call"

SpecRetry == InitRetry /\ [][NextRetry]_vars

\* clean_text
InitClean ==
    /\ pc = "idle"
    /\ caller = "none"
    /\ client_ok = TRUE
    /\ max_results = 0
    /\ remaining = 0
    /\ collected = <<>>
    /\ pagination_token = None
    /\ requests = <<>>
    /\ responses = <<>>
    /\ result = <<>>
    /\ exc = "none"
    /\ retry_after_seconds = None
    /\ signal429 = FALSE
    /\ ui = "none"
    /\ e_response = NoResponse
    /\ clock = 0
    /\ hint = None
    /\ retry_pc = "call"
    /\ text \in RawTexts
    /\ text_clean = <<>>
    /\ text_clean2 = <<>>
    /\ clean_pc = "raw"
    /\ df_rows = 0
    /\ df_compound = <<>>
    /\ df_sentiment_label = <<>>
    /\ sentiment_pc = "call"
    /\ KEYWORD_LEXICON = BUILTIN_KEYWORD_LEXICON
    /\ DEFAULT_DOMAIN_LABELS = BUILTIN_DOMAIN_LABELS
    /\ candidate_labels = None
    /\ row_text_clean = <<>>
    /\ domain_label = <<>>
    /\ domain_confidence = 0
    /\ domain_pc = "call"

SpecClean == InitClean /\ [][NextClean]_vars

\* analyze_sentiments
InitSentiment ==
    /\ pc = "idle"
    /\ caller = "none"
    /\ client_ok = TRUE
    /\ max_results = 0
    /\ remaining = 0
    /\ collected = <<>>
    /\ pagination_token = None
    /\ requests = <<>>
    /\ responses = <<>>
    /\ result = <<>>
    /\ exc = "none"
    /\ retry_after_seconds = None
    /\ signal429 = FALSE
    /\ ui = "none"
    /\ e_response = NoResponse
    /\ clock = 0
    /\ hint = None
    /\ retry_pc = "call"
    /\ text = <<>>
    /\ text_clean = <<>>
    /\ text_clean2 = <<>>
    /\ clean_pc = "raw"
    /\ df_rows \in 0..MaxRows
    /\ df_compound = <<>>
    /\ df_sentiment_label = <<>>
    /\ sentiment_pc = "call"
    /\ KEYWORD_LEXICON = BUILTIN_KEYWORD_LEXICON
    /\ DEFAULT_DOMAIN_LABELS = BUILTIN_DOMAIN_LABELS
    /\ candidate_labels = None
    /\ row_text_clean = <<>>
    /\ domain_label = <<>>
    /\ domain_confidence = 0
    /\ domain_pc = "call"

SpecSentiment == InitSentiment /\ [][NextSentiment]_vars

\* classify_domains_keyword
InitDomain ==
    /\ pc = "idle"
    /\ caller = "none"
    /\ client_ok = TRUE
    /\ max_results = 0
    /\ remaining = 0
    /\ collected = <<>>
    /\ pagination_token = None
    /\ requests = <<>>
    /\ responses = <<>>
    /\ result = <<>>
    /\ exc = "none"
    /\ retry_after_seconds = None
    /\ signal429 = FALSE
    /\ ui = "none"
    /\ e_response = NoResponse
    /\ clock = 0
    /\ hint = None
    /\ retry_pc = "call"
    /\ text = <<>>
    /\ text_clean = <<>>
    /\ text_clean2 = <<>>
    /\ clean_pc = "raw"
    /\ df_rows = 0
    /\ df_compound = <<>>
    /\ df_sentiment_label = <<>>
    /\ sentiment_pc = "call"
    /\ \E file \in ExternalFiles :
        /\ KEYWORD_LEXICON = ImportedLexicon(file)
        /\ DEFAULT_DOMAIN_LABELS = ImportedLabels(file)
    /\ candidate_labels \in CandidateLists
    /\ row_text_clean \in RowTexts
    /\ domain_label = <<>>
    /\ domain_confidence = 0
    /\ domain_pc = "call"

SpecDomain == InitDomain /\ [][NextDomain]_vars

====
